---- MODULE Spec2Model ----
(***************************************************************************)
(* Model of the chat agent of agents-starter: the message sanitizer        *)
(* (cleanupMessages), the tool-call resolution processor                   *)
(* (processToolCalls) and the chat turn of Chat.onChatMessage.             *)
(*                                                                         *)
(* Strings that the code inspects by prefix or by whitespace are kept as   *)
(* sequences of segments: a part type is <<"text">> or <<"tool-", name>>,  *)
(* a text is a sequence of segments of which " ", "\t" and "\n" are the    *)
(* whitespace ones.  Optional fields of a part (output, errorText) are     *)
(* present or absent in the record's domain, as in the JavaScript object.  *)
(***************************************************************************)
EXTENDS Integers, Sequences, FiniteSets, TLC

VARIABLES
    messages,          \* this.messages: the persisted conversation
    pc,                \* position of the running operation
    cleanedMessages,   \* const cleanedMessages of onChatMessage
    callMessages,      \* the messages argument of processToolCalls
    pending,           \* positions <<mi, pi>> whose handler is awaited
    resolved,          \* position -> result of the parts resolved so far
    processedMessages, \* the list processToolCalls returned
    stream,            \* events written to the outbound stream (writer)
    invocations,       \* calls made to handlers of executions
    submissions,       \* the streamText requests of the turn
    response,          \* <<message>> streamed by the model, not yet persisted
    nextId,            \* source of generateId and of the model's call ids
    turns,             \* chat turns started so far
    inflight,          \* chunks of the primary stream not yet forwarded
    thrown,            \* <<error>> raised in the turn, <<>> if none
    streamState,       \* "open" or "errored": the outbound stream
    abortedAt,         \* where the caller's abort signal fired, "" if not
    errorWrite,        \* what the catch block did with its message
    call,              \* the tool call under way: tool, input, collaborator
    outcome,           \* <<what the tool function returned or threw>>
    effects            \* the calls made on the external collaborators

vars == <<messages, pc, cleanedMessages, callMessages, pending, resolved,
          processedMessages, stream, invocations, submissions, response,
          nextId, turns, inflight, thrown, streamState, abortedAt,
          errorWrite, call, outcome, effects>>

\* what only the chat turn and its environment change
turnVars == <<submissions, response, nextId, turns>>

\* the primary stream in flight, the failure handling, the caller's signals
flowVars == <<inflight, thrown, streamState, abortedAt, errorWrite>>

\* a call of a tool function and what it did
toolVars == <<call, outcome, effects>>

(***************************************************************************)
(* Bounds of the model.                                                    *)
(***************************************************************************)
MaxMsgs == 2
MaxParts == 3
MaxTurns == 2

(***************************************************************************)
(* Program constants.                                                      *)
(***************************************************************************)
\* APPROVAL.YES and APPROVAL.NO of shared.ts: the APPROVE and DENY tokens
APPROVAL_YES == "APPROVE"
APPROVAL_NO == "DENY"
DefaultErrorText == "An error occurred while executing the tool"
DeniedText == "Error: User denied access to tool execution"
NoExecuteText == "Error: No execute function found on tool"
WhiteSpace == {" ", "\t", "\n"}
TextType == <<"text">>
ToolPrefix == "tool-"
WeatherTool == "getWeatherInformation"
TimeTool == "getLocalTime"

(***************************************************************************)
(* Generic helpers.                                                        *)
(***************************************************************************)
Has(r, f) == f \in DOMAIN r

\* { ...base, ...over }
Spread(base, over) == over @@ base

\* const { f: _, ...rest } = r
Without(r, f) == [g \in DOMAIN r \ {f} |-> r[g]]

FilterSeq(s, Keep(_)) ==
    LET F[i \in 0..Len(s)] ==
            IF i = 0 THEN <<>>
            ELSE IF Keep(s[i]) THEN Append(F[i - 1], s[i]) ELSE F[i - 1]
    IN  F[Len(s)]

MapSeq(s, F(_)) == [i \in 1..Len(s) |-> F(s[i])]

SomeSeq(s, P(_)) == \E i \in 1..Len(s) : P(s[i])

RECURSIVE JoinSegs(_)
JoinSegs(s) == IF s = <<>> THEN "" ELSE Head(s) \o JoinSegs(Tail(s))

\* String.prototype.replace(pattern, ""): the first occurrence is removed.
RECURSIVE RemoveFirst(_, _)
RemoveFirst(s, seg) ==
    IF s = <<>> THEN <<>>
    ELSE IF Head(s) = seg THEN Tail(s)
         ELSE <<Head(s)>> \o RemoveFirst(Tail(s), seg)

RECURSIVE TrimStart(_)
TrimStart(t) ==
    IF t # <<>> /\ Head(t) \in WhiteSpace THEN TrimStart(Tail(t)) ELSE t

RECURSIVE TrimEnd(_)
TrimEnd(t) ==
    IF t # <<>> /\ t[Len(t)] \in WhiteSpace
    THEN TrimEnd(SubSeq(t, 1, Len(t) - 1)) ELSE t

\* String.prototype.trim
Trim(t) == TrimEnd(TrimStart(t))

(***************************************************************************)
(* Parts and messages.                                                     *)
(***************************************************************************)
isToolUIPart(part) == part.type # <<>> /\ Head(part.type) = ToolPrefix

isTextPart(part) == part.type = TextType

\* !part.text || part.text.trim().length === 0
isBlankText(part) ==
    \/ ~Has(part, "text")
    \/ part.text = <<>>
    \/ Len(Trim(part.text)) = 0

\* part.type.replace("tool-", "")
toolNameOf(part) == JoinSegs(RemoveFirst(part.type, ToolPrefix))

(***************************************************************************)
(* cleanupMessages.                                                        *)
(***************************************************************************)
\* mutant: only the last part of the message is looked at
hasStreamingToolCallLast(message) ==
    /\ message.parts # <<>>
    /\ isToolUIPart(message.parts[Len(message.parts)])
    /\ message.parts[Len(message.parts)].state = "input-streaming"

hasStreamingToolCall(message) ==
    SomeSeq(message.parts,
            LAMBDA part : isToolUIPart(part) /\ part.state = "input-streaming")

\* mutant: ?? in place of ||, an empty error text is kept
errorTextOfNullish(part) ==
    IF Has(part, "errorText") THEN part.errorText ELSE DefaultErrorText

errorTextOf(part) ==
    IF Has(part, "errorText") /\ part.errorText # ""
    THEN part.errorText ELSE DefaultErrorText

\* mutant: the state is left as output-error
convertErrorPartKeepState(part) ==
    IF isToolUIPart(part) /\ part.state = "output-error"
    THEN Spread(Without(part, "errorText"), [output |-> errorTextOf(part)])
    ELSE part

convertErrorPart(part) ==
    IF isToolUIPart(part) /\ part.state = "output-error"
    THEN Spread(Without(part, "errorText"),
                [state |-> "output-available", output |-> errorTextOf(part)])
    ELSE part

\* mutant: the role of the message is not looked at
removeEmptyTextAnyRole(message, processedParts) ==
    IF SomeSeq(processedParts, isToolUIPart)
    THEN FilterSeq(processedParts,
                   LAMBDA part : ~(isTextPart(part) /\ isBlankText(part)))
    ELSE processedParts

removeEmptyText(message, processedParts) ==
    IF message.role = "assistant" /\ SomeSeq(processedParts, isToolUIPart)
    THEN FilterSeq(processedParts,
                   LAMBDA part : ~(isTextPart(part) /\ isBlankText(part)))
    ELSE processedParts

\* The callback of messages.map: "null" stands for the dropped message.
cleanMessage(message) ==
    IF ~Has(message, "parts") THEN message
    ELSE IF hasStreamingToolCall(message) THEN "null"
    ELSE Spread(message,
                [parts |-> removeEmptyText(message,
                                MapSeq(message.parts, convertErrorPart))])

\* mutant: the kept messages come out in reverse order
RECURSIVE cleanupFromReversed(_)
cleanupFromReversed(ms) ==
    IF ms = <<>> THEN <<>>
    ELSE IF Has(Head(ms), "parts") /\ hasStreamingToolCall(Head(ms))
         THEN cleanupFromReversed(Tail(ms))
         ELSE cleanupFromReversed(Tail(ms)) \o <<cleanMessage(Head(ms))>>

RECURSIVE cleanupFrom(_)
cleanupFrom(ms) ==
    IF ms = <<>> THEN <<>>
    ELSE LET m == cleanMessage(Head(ms))
         IN  IF Has(Head(ms), "parts") /\ hasStreamingToolCall(Head(ms))
             THEN cleanupFrom(Tail(ms))
             ELSE <<m>> \o cleanupFrom(Tail(ms))

cleanupMessages(ms) == cleanupFrom(ms)

(***************************************************************************)
(* processToolCalls.  The callbacks of the two nested Promise.all run      *)
(* synchronously, in message order and part order, up to their first       *)
(* await: a denied part is written to the stream at once, an approved      *)
(* part has its handler called and is then awaited.  The handlers return   *)
(* in any order; the continuation of each writes its event.                *)
(***************************************************************************)
\* writer.write and the reader of writer.merge: a chunk offered to a stream
\* that is no longer open is lost
enqueue(s, state, chunk) == IF state = "open" THEN Append(s, chunk) ELSE s

weatherExecution(input) == "The weather in " \o input.city \o " is sunny"

\* mutant: the table also holds a handler for getLocalTime
executionsWithTime == [name \in {WeatherTool, TimeTool} |-> "weatherExecution"]

\* export const executions of tools.ts
executions == [name \in {WeatherTool} |-> "weatherExecution"]

\* key in obj
isValidToolName(key, obj) == key \in DOMAIN obj

\* toolInstance(part.input, ...) where toolInstance = executions[toolName]
callExecution(toolName, input) ==
    IF executions[toolName] = "weatherExecution"
    THEN weatherExecution(input) ELSE "undefined"

\* mutant: an undecided output is treated as a denial
classifyDenyDefault(part) ==
    IF ~isToolUIPart(part) THEN "pass"
    ELSE IF ~(toolNameOf(part) \in DOMAIN executions)
            \/ part.state # "output-available" THEN "pass"
    ELSE IF Has(part, "output") /\ part.output = APPROVAL_YES THEN "invoke"
    ELSE "deny"

\* mutant: whatever is not a denial is treated as an approval
classifyApproveUnlessDenied(part) ==
    IF ~isToolUIPart(part) THEN "pass"
    ELSE IF ~(toolNameOf(part) \in DOMAIN executions)
            \/ part.state # "output-available" THEN "pass"
    ELSE IF Has(part, "output") /\ part.output = APPROVAL_NO THEN "deny"
    ELSE "invoke"

\* what the part callback does with a part before its first await
classify(part) ==
    IF ~isToolUIPart(part) THEN "pass"
    ELSE IF ~(toolNameOf(part) \in DOMAIN executions)
            \/ part.state # "output-available" THEN "pass"
    ELSE IF Has(part, "output") /\ part.output = APPROVAL_YES
         THEN IF ~isValidToolName(toolNameOf(part), executions) THEN "pass"
              ELSE IF executions[toolNameOf(part)] # "undefined"
                   THEN "invoke" ELSE "noexec"
    ELSE IF Has(part, "output") /\ part.output = APPROVAL_NO THEN "deny"
    ELSE "pass"

partsOf(message) == IF Has(message, "parts") THEN message.parts ELSE <<>>

\* the positions of the parts of ms from message mi on, in iteration order
RECURSIVE positionsFrom(_, _)
positionsFrom(ms, mi) ==
    IF mi > Len(ms) THEN <<>>
    ELSE [pi \in 1..Len(partsOf(ms[mi])) |-> <<mi, pi>>]
         \o positionsFrom(ms, mi + 1)

partAt(ms, pos) == ms[pos[1]].parts[pos[2]]

positionsOfKind(ms, kinds) ==
    FilterSeq(positionsFrom(ms, 1),
              LAMBDA pos : classify(partAt(ms, pos)) \in kinds)

\* mutant: the two fixed strings are mixed up
syncResultNoExecute(part) == NoExecuteText

syncResult(part) ==
    IF classify(part) = "deny" THEN DeniedText ELSE NoExecuteText

\* mutant: the event carries the part's old output
outputEventStale(part, result) ==
    [type |-> "tool-output-available",
     toolCallId |-> part.toolCallId,
     output |-> part.output]

outputEvent(part, result) ==
    [type |-> "tool-output-available",
     toolCallId |-> part.toolCallId,
     output |-> result]

invocationOf(part) ==
    [tool |-> toolNameOf(part), input |-> part.input,
     toolCallId |-> part.toolCallId, part |-> part]

\* return { ...part, output: result } for a resolved part, part otherwise
resolvedPart(ms, res, pos) ==
    IF pos \in DOMAIN res
    THEN Spread(partAt(ms, pos), [output |-> res[pos]])
    ELSE partAt(ms, pos)

resolvedMessage(ms, res, mi) ==
    IF ~Has(ms[mi], "parts") THEN ms[mi]
    ELSE Spread(ms[mi],
                [parts |-> [pi \in 1..Len(ms[mi].parts) |->
                               resolvedPart(ms, res, <<mi, pi>>)]])

\* the synchronous prefix of processToolCalls({ messages: ms, ... })
ProcStart(ms) ==
    LET now == positionsOfKind(ms, {"deny", "noexec"})
        inv == positionsOfKind(ms, {"invoke"})
    IN  /\ callMessages' = ms
        /\ stream' = IF streamState # "open" THEN stream
                     ELSE stream \o
              MapSeq(now, LAMBDA pos :
                  outputEvent(partAt(ms, pos), syncResult(partAt(ms, pos))))
        /\ resolved' = [pos \in {now[i] : i \in 1..Len(now)} |->
                           syncResult(partAt(ms, pos))]
        /\ invocations' = invocations \o
              MapSeq(inv, LAMBDA pos : invocationOf(partAt(ms, pos)))
        /\ pending' = {inv[i] : i \in 1..Len(inv)}

\* mutant: the continuation takes the part of another pending call
HandlerReturnCrossed(pos) ==
    /\ pc \in {"resolving", "fn-resolving", "fn-rejected", "catch"}
    /\ pos \in pending
    /\ LET other == CHOOSE q \in pending :
                        \A r \in pending :
                            q[1] * 10 + q[2] >= r[1] * 10 + r[2]
           part == partAt(callMessages, other)
           result == callExecution(toolNameOf(part), part.input)
       IN  /\ stream' = enqueue(stream, streamState,
                                outputEvent(partAt(callMessages, pos), result))
           /\ resolved' = (pos :> result) @@ resolved
    /\ pending' = pending \ {pos}
    /\ UNCHANGED <<messages, pc, cleanedMessages, callMessages,
                   processedMessages, invocations, turnVars, flowVars, toolVars>>

\* a handler's promise resolves: the code after the await runs
HandlerReturn(pos) ==
    /\ pc \in {"resolving", "fn-resolving", "fn-rejected", "catch"}
    /\ pos \in pending
    /\ LET part == partAt(callMessages, pos)
           result == callExecution(toolNameOf(part), part.input)
       IN  /\ stream' = enqueue(stream, streamState,
                                outputEvent(part, result))
           /\ resolved' = (pos :> result) @@ resolved
    /\ pending' = pending \ {pos}
    /\ UNCHANGED <<messages, pc, cleanedMessages, callMessages,
                   processedMessages, invocations, turnVars, flowVars, toolVars>>

\* a handler's promise rejects: the inner and then the outer Promise.all
\* reject with err and the await of processToolCalls throws it; the other
\* handlers go on
HandlerFail(pos, err) ==
    /\ pc \in {"resolving", "fn-resolving"}
    /\ pos \in pending
    /\ pending' = pending \ {pos}
    /\ thrown' = <<err>>
    /\ pc' = IF pc = "resolving" THEN "catch" ELSE "fn-rejected"
    /\ UNCHANGED <<messages, cleanedMessages, callMessages, resolved,
                   processedMessages, stream, invocations, turnVars,
                   inflight, streamState, abortedAt, errorWrite, toolVars>>

\* both Promise.all have settled: return processedMessages
ProcFinish ==
    /\ pending = {}
    /\ processedMessages' =
          [mi \in 1..Len(callMessages) |->
              resolvedMessage(callMessages, resolved, mi)]

(***************************************************************************)
(* Inputs of the pure functions.                                           *)
(***************************************************************************)
Texts == {<<>>, <<" ">>, <<" ", "hi">>}

TextPart(t) == [type |-> TextType, text |-> t]

ToolPart(name, st, inp) ==
    [type |-> <<ToolPrefix, name>>, toolCallId |-> 0, state |-> st, input |-> inp]

\* the parts the sanitizer tells apart
CleanShapes ==
    {TextPart(t) : t \in Texts}
    \cup {ToolPart(WeatherTool, st, [city |-> "Paris"]) :
              st \in {"input-streaming", "output-error"}}
    \cup {ToolPart(WeatherTool, "output-available", [city |-> "Paris"])
              @@ ("output" :> APPROVAL_YES)}
    \cup {ToolPart(WeatherTool, "output-error", [city |-> "Paris"])
              @@ ("errorText" :> e) : e \in {"", "Invalid input"}}

\* the parts the resolution processor tells apart
ProcShapes ==
    {TextPart(<<"hi">>)}
    \cup {ToolPart(WeatherTool, "input-available", [city |-> "Paris"])}
    \cup {ToolPart(WeatherTool, "output-available", [city |-> c])
              @@ ("output" :> APPROVAL_YES) : c \in {"Paris", "Oslo"}}
    \cup {ToolPart(WeatherTool, "output-available", [city |-> "Paris"])
              @@ ("output" :> o) :
              o \in {APPROVAL_NO, "The weather in Paris is sunny"}}
    \cup {ToolPart(WeatherTool, "output-error", [city |-> "Paris"])
              @@ ("errorText" :> "Invalid input")}
    \cup {ToolPart(TimeTool, "output-available", [location |-> "Paris"])
              @@ ("output" :> APPROVAL_YES)}

\* what a handler of executions rejects with
HandlerErrors ==
    {[isError |-> TRUE, message |-> <<"Weather service unavailable">>]}

Roles == {"user", "assistant"}

RECURSIVE SumTo(_, _)
SumTo(cnt, k) == IF k = 0 THEN 0 ELSE cnt[k] + SumTo(cnt, k - 1)

CallId(mi, pi) == 10 * mi + pi

\* message mi of the input: cnt[mi] parts taken in order from ps, ids stamped
BuildMessage(mi, role, cnt, ps) ==
    [id |-> mi, role |-> role,
     parts |-> [pi \in 1..cnt[mi] |->
                   LET p == ps[SumTo(cnt, mi - 1) + pi]
                   IN  IF isToolUIPart(p)
                       THEN Spread(p, [toolCallId |-> CallId(mi, pi)])
                       ELSE p]]

\* a message list of at most MaxMsgs messages and MaxParts parts in all
InitInput(shapes, roleSet) ==
    /\ \E k \in 0..MaxMsgs :
       \E cnt \in [1..k -> 0..MaxParts] :
          /\ SumTo(cnt, k) <= MaxParts
          /\ \E roles \in [1..k -> roleSet] :
             \E ps \in [1..SumTo(cnt, k) -> shapes] :
                messages = [mi \in 1..k |-> BuildMessage(mi, roles[mi], cnt, ps)]
    /\ pc = "fn"
    /\ cleanedMessages = <<>>
    /\ callMessages = <<>>
    /\ pending = {}
    /\ resolved = <<>>
    /\ processedMessages = <<>>
    /\ stream = <<>>
    /\ invocations = <<>>
    /\ submissions = <<>>
    /\ response = <<>>
    /\ nextId = 1
    /\ turns = 0
    /\ inflight = <<>>
    /\ thrown = <<>>
    /\ streamState = "open"
    /\ abortedAt = ""
    /\ errorWrite = "none"
    /\ call = <<>>
    /\ outcome = <<>>
    /\ effects = <<>>

InitClean == InitInput(CleanShapes, Roles)

InitProc == InitInput(ProcShapes, {"assistant"})

\* mutant: the sanitizer writes its result back into the store
FnCleanupInPlace ==
    /\ pc = "fn"
    /\ cleanedMessages' = cleanupMessages(messages)
    /\ messages' = cleanupMessages(messages)
    /\ pc' = "fn-cleaned"
    /\ UNCHANGED <<callMessages, pending, resolved,
                   processedMessages, stream, invocations, turnVars, flowVars, toolVars>>

FnCleanup ==
    /\ pc = "fn"
    /\ cleanedMessages' = cleanupMessages(messages)
    /\ pc' = "fn-cleaned"
    /\ UNCHANGED <<messages, callMessages, pending, resolved,
                   processedMessages, stream, invocations, turnVars, flowVars, toolVars>>

FnProcess ==
    /\ pc = "fn"
    /\ ProcStart(messages)
    /\ pc' = "fn-resolving"
    /\ UNCHANGED <<messages, cleanedMessages, processedMessages, turnVars, flowVars, toolVars>>

FnProcessReturn ==
    /\ pc = "fn-resolving"
    /\ ProcFinish
    /\ pc' = "fn-resolved"
    /\ UNCHANGED <<messages, cleanedMessages, callMessages, pending,
                   resolved, stream, invocations, turnVars, flowVars, toolVars>>

NextClean == FnCleanup

SpecClean == InitClean /\ [][NextClean]_vars

NextProc ==
    \/ FnProcess
    \/ \E pos \in pending : HandlerReturn(pos)
    \/ \E pos \in pending : \E err \in HandlerErrors : HandlerFail(pos, err)
    \/ FnProcessReturn

SpecProc == InitProc /\ [][NextProc]_vars

(***************************************************************************)
(* The chat turn: Chat.onChatMessage, with the client and the hosting      *)
(* framework as its environment.  The client appends a user message or     *)
(* answers a pending confirmation and the framework starts a turn; the     *)
(* framework persists the assistant message the model streamed, at a time  *)
(* of its own choosing between the end of the primary stream and the end   *)
(* of the turn.  writer.merge hands the model's stream to a reader that    *)
(* forwards it chunk by chunk while execute goes on; a call inside the try *)
(* block can throw, the outbound stream can break and the caller's abort   *)
(* signal can fire at any of these steps.                                  *)
(***************************************************************************)
NarrationPrompt ==
    <<"Please explain the tool result above to me in a clear, natural way.">>

\* the parts of the assistant messages the model endpoint can stream
ResponseShapes ==
    { <<TextPart(<<"hi">>)>>,
      <<ToolPart(WeatherTool, "input-available", [city |-> "Paris"])>>,
      <<ToolPart(WeatherTool, "input-streaming", [city |-> "Paris"])>>,
      <<ToolPart(TimeTool, "output-available", [location |-> "Paris"])
            @@ ("output" :> "12:00 PM")>>,
      <<TextPart(<<>>),
        ToolPart(TimeTool, "output-available", [location |-> "Paris"])
            @@ ("output" :> "12:00 PM")>>,
      <<ToolPart(TimeTool, "output-available", [location |-> "Paris"])
            @@ ("output" :> "12:00 PM"),
        TextPart(<<"hi">>)>>,
      <<ToolPart(WeatherTool, "output-error", [city |-> "Paris"])
            @@ ("errorText" :> "Invalid input")>>,
      <<ToolPart(TimeTool, "output-error", [location |-> "Paris"])
            @@ ("errorText" :> "Invalid input"),
        ToolPart(WeatherTool, "input-available", [city |-> "Oslo"])>> }

\* the texts the narration follow-up can produce
NarrationTexts == {<<>>, <<"It is noon in Paris.">>}

\* ids: the message takes id, its i-th part id + i
stamped(parts, id) ==
    [i \in 1..Len(parts) |->
        IF isToolUIPart(parts[i])
        THEN Spread(parts[i], [toolCallId |-> id + i]) ELSE parts[i]]

\* the UI message stream chunks of one streamed part
chunkOf(part) ==
    IF isToolUIPart(part)
    THEN [type |-> "tool-input-available", toolCallId |-> part.toolCallId]
    ELSE [type |-> "text-delta", delta |-> part.text]

\* the texts of the catch block
RateLimitMessage ==
    "I've hit a rate limit. Please wait a moment and try again."

TimeoutMessage ==
    "The request timed out. Please try again with a simpler query."

TooLargeMessage ==
    "The response was too large. Please try a more specific query."

GenericMessage ==
    "I apologize, but I encountered an error processing your request. Please try again."

\* An error text is a sequence of segments, taken from an alphabet in which
\* no segment occurs inside another or across two neighbours, so that
\* includes(needle) is the presence of the segment needle.
includes(message, needle) == \E i \in 1..Len(message) : message[i] = needle

\* String.prototype.toLowerCase on the segments of the alphabet
toLowerCase(message) ==
    [i \in 1..Len(message) |->
        CASE message[i] = "Rate limit" -> "rate limit"
          [] message[i] = "Payload" -> "payload"
          [] message[i] = "Cannot close" -> "cannot close"
          [] message[i] = "Request " -> "request "
          [] message[i] = "Connection reset" -> "connection reset"
          [] message[i] = "Weather service unavailable"
                -> "weather service unavailable"
          [] OTHER -> message[i]]

\* error instanceof Error && (error.message.includes(...) || ...)
isStreamErrored(error) ==
    /\ error.isError
    /\ \/ includes(error.message, "errored readable stream")
       \/ includes(error.message, "Cannot close")

\* error instanceof Error ? error.message.toLowerCase()
\*                        : String(error).toLowerCase()
errorMessageOf(error) == toLowerCase(error.message)

\* mutant: the error text is inspected as it is, not lower-cased
userMessageForCaseSensitive(error) ==
    LET errorMessage == error.message
    IN  IF includes(errorMessage, "rate limit") \/ includes(errorMessage, "429")
        THEN RateLimitMessage
        ELSE IF \/ includes(errorMessage, "timeout")
                \/ includes(errorMessage, "timed out")
        THEN TimeoutMessage
        ELSE IF \/ includes(errorMessage, "too large")
                \/ includes(errorMessage, "payload")
                \/ includes(errorMessage, "size")
        THEN TooLargeMessage
        ELSE GenericMessage

userMessageFor(error) ==
    LET errorMessage == errorMessageOf(error)
    IN  IF includes(errorMessage, "rate limit") \/ includes(errorMessage, "429")
        THEN RateLimitMessage
        ELSE IF \/ includes(errorMessage, "timeout")
                \/ includes(errorMessage, "timed out")
        THEN TimeoutMessage
        ELSE IF \/ includes(errorMessage, "too large")
                \/ includes(errorMessage, "payload")
                \/ includes(errorMessage, "size")
        THEN TooLargeMessage
        ELSE GenericMessage

Err(message) == [isError |-> TRUE, message |-> message]

\* what a call inside the try block can throw: Error objects and one value
\* that is not an Error
ErrorValues ==
    { Err(<<"Rate limit">>),
      Err(<<"429", " ", "timeout">>),
      Err(<<"Request ", "timed out">>),
      Err(<<"timeout", " ", "Payload">>),
      Err(<<"too large">>),
      Err(<<"size">>),
      Err(<<"Connection reset">>),
      Err(<<"errored readable stream">>),
      Err(<<"Cannot close", " ", "timeout">>),
      [isError |-> FALSE, message |-> <<"Cannot close">>] }

Init ==
    /\ messages = <<>>
    /\ pc = "idle"
    /\ cleanedMessages = <<>>
    /\ callMessages = <<>>
    /\ pending = {}
    /\ resolved = <<>>
    /\ processedMessages = <<>>
    /\ stream = <<>>
    /\ invocations = <<>>
    /\ submissions = <<>>
    /\ response = <<>>
    /\ nextId = 1
    /\ turns = 0
    /\ inflight = <<>>
    /\ thrown = <<>>
    /\ streamState = "open"
    /\ abortedAt = ""
    /\ errorWrite = "none"
    /\ call = <<>>
    /\ outcome = <<>>
    /\ effects = <<>>

\* the framework calls onChatMessage: a new stream, a new execute callback
StartTurn ==
    /\ turns < MaxTurns
    /\ turns' = turns + 1
    /\ pc' = "start"
    /\ cleanedMessages' = <<>>
    /\ callMessages' = <<>>
    /\ pending' = {}
    /\ resolved' = <<>>
    /\ processedMessages' = <<>>
    /\ stream' = <<>>
    /\ invocations' = <<>>
    /\ submissions' = <<>>
    /\ inflight' = <<>>
    /\ thrown' = <<>>
    /\ streamState' = "open"
    /\ abortedAt' = ""
    /\ errorWrite' = "none"

\* the client sends a new user message
ClientSend ==
    /\ pc = "idle"
    /\ StartTurn
    /\ messages' = Append(messages,
           [id |-> nextId, role |-> "user", parts |-> <<TextPart(<<"hi">>)>>])
    /\ nextId' = nextId + 1
    /\ UNCHANGED <<response, toolVars>>

\* the user approves or denies a pending confirmation-required call
ClientDecide(pos, token) ==
    /\ pc = "idle"
    /\ isToolUIPart(partAt(messages, pos))
    /\ partAt(messages, pos).state = "input-available"
    /\ toolNameOf(partAt(messages, pos)) = WeatherTool
    /\ StartTurn
    /\ messages' = [messages EXCEPT ![pos[1]].parts[pos[2]] =
           Spread(@, [state |-> "output-available", output |-> token])]
    /\ UNCHANGED <<response, nextId, toolVars>>

\* const cleanedMessages = cleanupMessages(this.messages)
Sanitize ==
    /\ pc = "start"
    /\ cleanedMessages' = cleanupMessages(messages)
    /\ pc' = "sanitized"
    /\ UNCHANGED <<messages, callMessages, pending, resolved,
                   processedMessages, stream, invocations, turnVars, flowVars, toolVars>>

\* processToolCalls({ messages: cleanedMessages, dataStream: writer, ... })
ResolveStart ==
    /\ pc = "sanitized"
    /\ ProcStart(cleanedMessages)
    /\ pc' = "resolving"
    /\ UNCHANGED <<messages, cleanedMessages, processedMessages, turnVars,
                   flowVars, toolVars>>

\* let processedMessages = await processToolCalls(...)
ResolveFinish ==
    /\ pc = "resolving"
    /\ ProcFinish
    /\ pc' = "resolved"
    /\ UNCHANGED <<messages, cleanedMessages, callMessages, pending,
                   resolved, stream, invocations, turnVars, flowVars, toolVars>>

\* mutant: the sanitized list is submitted, the resolver's result is dropped
SubmitPrimaryUnresolved(parts) ==
    /\ pc = "resolved"
    /\ submissions' = Append(submissions,
           [request |-> "primary", messages |-> cleanedMessages,
            tools |-> TRUE])
    /\ inflight' = stamped(parts, nextId)
    /\ response' = <<[id |-> nextId, role |-> "assistant",
                      parts |-> stamped(parts, nextId)]>>
    /\ nextId' = nextId + Len(parts) + 1
    /\ pc' = "waiting"
    /\ UNCHANGED <<messages, cleanedMessages, callMessages, pending, resolved,
                   processedMessages, stream, invocations, turns, thrown,
                   streamState, abortedAt, errorWrite, toolVars>>

\* streamText({ messages: convertToModelMessages(processedMessages), tools })
\* and writer.merge(result.toUIMessageStream()): merge starts a reader of
\* the model's stream and returns; the 150 ms timer is then awaited.  parts
\* is what the model will stream.
SubmitPrimary(parts) ==
    /\ pc = "resolved"
    /\ submissions' = Append(submissions,
           [request |-> "primary", messages |-> processedMessages,
            tools |-> TRUE])
    /\ inflight' = stamped(parts, nextId)
    /\ response' = <<[id |-> nextId, role |-> "assistant",
                      parts |-> stamped(parts, nextId)]>>
    /\ nextId' = nextId + Len(parts) + 1
    /\ pc' = "waiting"
    /\ UNCHANGED <<messages, cleanedMessages, callMessages, pending, resolved,
                   processedMessages, stream, invocations, turns, thrown,
                   streamState, abortedAt, errorWrite, toolVars>>

\* the reader started by merge forwards the next chunk of the primary stream
ForwardChunk ==
    /\ inflight # <<>>
    /\ stream' = enqueue(stream, streamState, chunkOf(Head(inflight)))
    /\ inflight' = Tail(inflight)
    /\ UNCHANGED <<messages, pc, cleanedMessages, callMessages, pending,
                   resolved, processedMessages, invocations, turnVars, thrown,
                   streamState, abortedAt, errorWrite, toolVars>>

\* mutant: the streamed message takes the place of the stored list
PersistOverwrite ==
    /\ pc \in {"waiting", "followup", "catch", "done"}
    /\ response # <<>>
    /\ inflight = <<>>
    /\ messages' = response
    /\ response' = <<>>
    /\ UNCHANGED <<pc, cleanedMessages, callMessages, pending, resolved,
                   processedMessages, stream, invocations, submissions,
                   nextId, turns, flowVars, toolVars>>

\* the framework saves the assistant message the model has streamed
Persist ==
    /\ pc \in {"waiting", "followup", "catch", "done"}
    /\ response # <<>>
    /\ inflight = <<>>
    /\ messages' = Append(messages, response[1])
    /\ response' = <<>>
    /\ UNCHANGED <<pc, cleanedMessages, callMessages, pending, resolved,
                   processedMessages, stream, invocations, submissions,
                   nextId, turns, flowVars, toolVars>>

\* mutant: a tool part in any state counts as a completed call
needsNarrationAnyTool(ms) ==
    /\ ms # <<>>
    /\ LET lastMessage == ms[Len(ms)]
       IN  /\ lastMessage.role = "assistant"
           /\ Has(lastMessage, "parts")
           /\ SomeSeq(lastMessage.parts, isToolUIPart)
           /\ ~SomeSeq(lastMessage.parts,
                  LAMBDA part : isTextPart(part) /\ Has(part, "text")
                                /\ part.text # <<>>
                                /\ Len(Trim(part.text)) > 0)

\* lastMessage?.role === "assistant" && lastMessage.parts, toolParts.length > 0
\* && hasNoTextContent
needsNarration(ms) ==
    /\ ms # <<>>
    /\ LET lastMessage == ms[Len(ms)]
       IN  /\ lastMessage.role = "assistant"
           /\ Has(lastMessage, "parts")
           /\ SomeSeq(lastMessage.parts,
                  LAMBDA part : isToolUIPart(part)
                                /\ part.state = "output-available")
           /\ ~SomeSeq(lastMessage.parts,
                  LAMBDA part : isTextPart(part) /\ Has(part, "text")
                                /\ part.text # <<>>
                                /\ Len(Trim(part.text)) > 0)

messagesWithPrompt(ms, id) ==
    Append(ms, [id |-> id, role |-> "user",
                parts |-> <<TextPart(NarrationPrompt)>>])

\* the 150 ms timer fires: re-read this.messages and decide on the follow-up
CheckNarration ==
    /\ pc = "waiting"
    /\ IF needsNarration(messages)
       THEN /\ submissions' = Append(submissions,
                   [request |-> "followup",
                    messages |-> messagesWithPrompt(messages, nextId),
                    tools |-> FALSE])
            /\ nextId' = nextId + 1
            /\ pc' = "followup"
       ELSE /\ pc' = "done"
            /\ UNCHANGED <<submissions, nextId>>
    /\ UNCHANGED <<messages, cleanedMessages, callMessages, pending, resolved,
                   processedMessages, stream, invocations, response, turns,
                   flowVars, toolVars>>

\* writer.merge(continuationResult.toUIMessageStream()) and its forwarding
FollowupStream(text) ==
    /\ pc = "followup"
    /\ stream' = enqueue(stream, streamState,
                         [type |-> "text-delta", delta |-> text])
    /\ pc' = "done"
    /\ UNCHANGED <<messages, cleanedMessages, callMessages, pending, resolved,
                   processedMessages, invocations, turnVars, flowVars, toolVars>>

\* a call inside the try block throws: cleanupMessages, or
\* convertToModelMessages / streamText of the primary request, or those of
\* the follow-up request
Throw(err) ==
    /\ \/ pc \in {"start", "resolved"}
       \/ pc = "waiting" /\ needsNarration(messages)
    /\ thrown' = <<err>>
    /\ pc' = "catch"
    /\ UNCHANGED <<messages, cleanedMessages, callMessages, pending, resolved,
                   processedMessages, stream, invocations, turnVars,
                   inflight, streamState, abortedAt, errorWrite, toolVars>>

\* catch (error) { ... }
Catch ==
    /\ pc = "catch"
    /\ IF isStreamErrored(thrown[1])
       THEN /\ errorWrite' = "skipped"
            /\ UNCHANGED stream
       ELSE /\ errorWrite' =
                  IF streamState = "open" THEN "written" ELSE "attempted"
            /\ stream' = enqueue(stream, streamState,
                                 [type |-> "text-delta",
                                  delta |-> <<userMessageFor(thrown[1])>>])
    /\ pc' = "done"
    /\ UNCHANGED <<messages, cleanedMessages, callMessages, pending, resolved,
                   processedMessages, invocations, turnVars, inflight, thrown,
                   streamState, abortedAt, toolVars>>

\* the outbound stream is cancelled or errors under the turn
StreamBreak ==
    /\ pc \notin {"idle", "done"}
    /\ streamState = "open"
    /\ streamState' = "errored"
    /\ UNCHANGED <<messages, pc, cleanedMessages, callMessages, pending,
                   resolved, processedMessages, stream, invocations, turnVars,
                   inflight, thrown, abortedAt, errorWrite, toolVars>>

\* the caller's abort signal fires while a model request is under way;
\* _options.abortSignal is not read by onChatMessage
Abort ==
    /\ pc \in {"waiting", "followup"}
    /\ abortedAt = ""
    /\ abortedAt' = IF pc = "waiting" THEN "primary" ELSE "followup"
    /\ UNCHANGED <<messages, pc, cleanedMessages, callMessages, pending,
                   resolved, processedMessages, stream, invocations, turnVars,
                   inflight, thrown, streamState, errorWrite, toolVars>>

\* execute has returned, the merged streams have ended and the framework
\* has saved the turn's message
EndTurn ==
    /\ pc = "done"
    /\ response = <<>>
    /\ inflight = <<>>
    /\ pc' = "idle"
    /\ UNCHANGED <<messages, cleanedMessages, callMessages, pending, resolved,
                   processedMessages, stream, invocations, turnVars, flowVars, toolVars>>

Next ==
    \/ ClientSend
    \/ \E mi \in 1..Len(messages) :
       \E pi \in 1..Len(partsOf(messages[mi])) :
       \E token \in {APPROVAL_YES, APPROVAL_NO} : ClientDecide(<<mi, pi>>, token)
    \/ Sanitize
    \/ ResolveStart
    \/ \E pos \in pending : HandlerReturn(pos)
    \/ \E pos \in pending : \E err \in HandlerErrors : HandlerFail(pos, err)
    \/ ResolveFinish
    \/ \E parts \in ResponseShapes : SubmitPrimary(parts)
    \/ ForwardChunk
    \/ Persist
    \/ CheckNarration
    \/ \E text \in NarrationTexts : FollowupStream(text)
    \/ \E err \in ErrorValues : Throw(err)
    \/ Catch
    \/ StreamBreak
    \/ Abort
    \/ EndTurn

Spec == Init /\ [][Next]_vars

(***************************************************************************)
(* The scheduled-task callback, Chat.executeTask.  The framework calls it  *)
(* when a scheduled task fires; saveMessages stores the list it is given   *)
(* and has the agent answer it, which starts a chat turn.  SpecStore runs  *)
(* the chat turns and the callbacks between them, with one error value for *)
(* what the try block can throw.                                           *)
(***************************************************************************)
TaskPrefix == "Running scheduled task: "

Descriptions == {"water the plants"}

\* the message executeTask builds
taskMessage(id, description) ==
    [id |-> id, role |-> "user",
     parts |-> <<TextPart(<<TaskPrefix, description>>)>>,
     metadata |-> [createdAt |-> "now"]]

\* mutant: only the new message is saved
ExecuteTaskAlone(description) ==
    /\ pc = "idle"
    /\ StartTurn
    /\ messages' = <<taskMessage(nextId, description)>>
    /\ nextId' = nextId + 1
    /\ UNCHANGED <<response, toolVars>>

\* await this.saveMessages([...this.messages, { ... }])
ExecuteTask(description) ==
    /\ pc = "idle"
    /\ StartTurn
    /\ messages' = Append(messages, taskMessage(nextId, description))
    /\ nextId' = nextId + 1
    /\ UNCHANGED <<response, toolVars>>

NextStore ==
    \/ ClientSend
    \/ \E mi \in 1..Len(messages) :
       \E pi \in 1..Len(partsOf(messages[mi])) :
       \E token \in {APPROVAL_YES, APPROVAL_NO} : ClientDecide(<<mi, pi>>, token)
    \/ \E description \in Descriptions : ExecuteTask(description)
    \/ Sanitize
    \/ ResolveStart
    \/ \E pos \in pending : HandlerReturn(pos)
    \/ \E pos \in pending : \E err \in HandlerErrors : HandlerFail(pos, err)
    \/ ResolveFinish
    \/ \E parts \in ResponseShapes : SubmitPrimary(parts)
    \/ ForwardChunk
    \/ Persist
    \/ CheckNarration
    \/ \E text \in NarrationTexts : FollowupStream(text)
    \/ \E err \in HandlerErrors : Throw(err)
    \/ Catch
    \/ StreamBreak
    \/ Abort
    \/ EndTurn

SpecStore == Init /\ [][NextStore]_vars

(***************************************************************************)
(* The tools.  A tool declared with an execute function is run by the      *)
(* model call itself; a tool declared without one waits for the user's     *)
(* decision and is run from the executions table.  tools.ts declares the   *)
(* weather tool without execute; the variant in utils.ts declares every    *)
(* tool with execute and leaves the executions table empty.  Each entry    *)
(* says whether the declaration carries an execute function.               *)
(***************************************************************************)
tools ==
    [ getWeatherInformation |-> FALSE,
      getLocalTime          |-> TRUE,
      scheduleTask          |-> TRUE,
      getScheduledTasks     |-> TRUE,
      cancelScheduledTask   |-> TRUE,
      searchWeb             |-> TRUE ]

toolsOfUtils ==
    [ getWeatherInformation |-> TRUE,
      getLocalTime          |-> TRUE,
      scheduleTask          |-> TRUE,
      getScheduledTasks     |-> TRUE,
      cancelScheduledTask   |-> TRUE,
      searchWeb             |-> TRUE ]

\* export const executions = {} of the variant
executionsOfUtils == <<>>

(***************************************************************************)
(* A text whose length matters is a sequence of characters; character i    *)
(* of a generated text is the last digit of i, so that two cuts of one     *)
(* text at different positions differ.                                     *)
(***************************************************************************)
MaxTextLen == 250

Chars(n) == [i \in 1..n |-> ToString(i % 10)]

Ellipsis == <<".", ".", ".">>

\* text.substring(0, end): end below 0 counts as 0, end above the length
\* as the length
substring(text, end) ==
    SubSeq(text, 1, IF end < 0 THEN 0 ELSE IF end > Len(text) THEN Len(text) ELSE end)

truncateTextAtMax(text, maxLength) ==
    IF Len(text) <= maxLength
    THEN text
    ELSE substring(text, maxLength) \o Ellipsis

truncateText(text, maxLength) ==
    IF Len(text) <= maxLength
    THEN text
    ELSE substring(text, maxLength - 3) \o Ellipsis

\* the maximum passed for a title, and MAX_DESCRIPTION_LENGTH
MAX_TITLE_LENGTH == 100
MAX_DESCRIPTION_LENGTH == 200

\* status === 429 || status === 403
isRateLimitError(status) == status = 429 \/ status = 403

(***************************************************************************)
(* One call of a tool function.  call holds the input of the call and the  *)
(* behaviour of everything the function talks to; outcome is what the      *)
(* function did, a returned value or a raised error; effects lists the     *)
(* requests it made to its collaborators.                                  *)
(***************************************************************************)
TruncateCalls ==
    { [tool |-> "truncateText", text |-> Chars(n), maxLength |-> m] :
        n \in 0..MaxTextLen, m \in {MAX_TITLE_LENGTH, MAX_DESCRIPTION_LENGTH} }

\* what a function did: it returned a value, or it raised an error
Returned(value) == [kind |-> "return", value |-> value]

Raised(error) == [kind |-> "throw", error |-> error]

(***************************************************************************)
(* The agent of a call.  getCurrentAgent() yields no agent outside an      *)
(* agent context (the call record then has no agent field); the            *)
(* environment of an agent holds the API key under its name, holds it      *)
(* empty, or does not hold it.                                             *)
(***************************************************************************)
Agents(keyName) ==
    { [env |-> [ENVIRONMENT |-> "dev"]],
      [env |-> [ENVIRONMENT |-> "dev"] @@ (keyName :> "")],
      [env |-> [ENVIRONMENT |-> "dev"] @@ (keyName :> "k-123")] }

\* the tool errors: name and message of an Error, or a thrown value that is
\* no Error
ToolErr(name, message) ==
    [isError |-> TRUE, name |-> name, message |-> <<message>>]

NotAnError(value) == [isError |-> FALSE, message |-> <<value>>]

\* error instanceof Error ? error.message : 'Unknown error'
messageOrUnknown(error) ==
    IF error.isError THEN error.message ELSE <<"Unknown error">>

\* `${error}`: String(error) is "<name>: <message>" for an Error
errorString(error) ==
    IF error.isError THEN <<error.name, ": ">> \o error.message
    ELSE error.message

\* what fetch does: the promise rejects, or resolves to a response with a
\* status and a body; response.ok is status in 200..299
FetchFailures ==
    { [kind |-> "reject", error |-> ToolErr("TypeError", "fetch failed")],
      [kind |-> "reject", error |-> NotAnError("aborted")] }

NonOkResponses ==
    { [kind |-> "response", status |-> st, body |-> [json |-> FALSE]] :
        st \in {404, 401, 429, 403, 500} }

responseOk(res) == res.status >= 200 /\ res.status <= 299

\* the body of a response is [json |-> FALSE] when it is no JSON at all,
\* and otherwise holds the JSON value data
Json(data) == [json |-> TRUE, data |-> data]

OkResponse(body) == [kind |-> "response", status |-> 200, body |-> body]

\* a returned string: its segments, followed by its formatted items
Str(segments) == [text |-> segments, items |-> <<>>]

StrItems(segments, items) == [text |-> segments, items |-> items]

\* the outcome of a try block that threw, after its catch block
\* return `<prefix>${error instanceof Error ? error.message : 'Unknown error'}`
caught(prefix, tried) ==
    IF tried.outcome.kind = "throw"
    THEN [outcome |-> Returned(Str(<<prefix>> \o
                                   messageOrUnknown(tried.outcome.error))),
          effects |-> tried.effects]
    ELSE tried

(***************************************************************************)
(* getWeatherInformation.execute.  Numbers with a fraction are held in     *)
(* tenths.                                                                 *)
(***************************************************************************)
WeatherData ==
    [ name |-> "Paris", sys |-> [country |-> "FR"],
      main |-> [temp |-> 216, feels_like |-> 204, humidity |-> 60],
      weather |-> <<[description |-> "clear sky"]>>,
      wind |-> [speed |-> 36] ]

\* a body that is JSON without the fields the adapter reads
MalformedWeatherData == [cod |-> 200]

WeatherResponses ==
    NonOkResponses \cup
    { OkResponse(Json(WeatherData)), OkResponse(Json(MalformedWeatherData)),
      OkResponse([json |-> FALSE]) }

WeatherCalls ==
    { [tool |-> "getWeatherInformation", input |-> [city |-> city],
       fetch |-> f] : city \in {"Paris"}, f \in FetchFailures \cup WeatherResponses }
    \cup
    { [tool |-> "getWeatherInformation", input |-> [city |-> city],
       agent |-> a, fetch |-> f] :
        city \in {"Paris"}, a \in Agents("OPENWEATHER_API_KEY"),
        f \in FetchFailures \cup WeatherResponses }

\* (agent as any)?.env.<keyName>; a list of no or one key
apiKeyOf(c, keyName) ==
    IF ~Has(c, "agent") THEN <<>>
    ELSE IF ~Has(c.agent.env, keyName) THEN <<>>
    ELSE <<c.agent.env[keyName]>>

\* !apiKey
missing(apiKey) == apiKey = <<>> \/ apiKey[1] = ""

\* Math.round of a number held in tenths
round(tenths) == (tenths + 5) \div 10

\* a number held in tenths, written out
decimal(tenths) ==
    IF tenths % 10 = 0 THEN ToString(tenths \div 10)
    ELSE ToString(tenths \div 10) \o "." \o ToString(tenths % 10)

weatherRequest(city, apiKey) ==
    [ op |-> "fetch",
      url |-> <<"https://api.openweathermap.org/data/2.5/weather?q=", city,
                "&appid=", apiKey, "&units=metric">> ]

\* the formatting of the data of an OK response
weatherReport(data) ==
    IF \E f \in {"sys", "main", "weather", "wind"} : ~Has(data, f)
    THEN Raised(ToolErr("TypeError",
                        "Cannot read properties of undefined"))
    ELSE Returned(Str(
           << "Weather in ", data.name, ", ", data.sys.country,
              ":\n- Temperature: ", ToString(round(data.main.temp)),
              "°C (feels like ", ToString(round(data.main.feels_like)),
              "°C)\n- Conditions: ", data.weather[1].description,
              "\n- Humidity: ", ToString(data.main.humidity),
              "%\n- Wind Speed: ", decimal(data.wind.speed), " m/s" >>))

\* the message for a response that is not OK
weatherFailure(city, status) ==
    IF status = 404
    THEN Str(<<"City \"", city, "\" ", "not found",
               ". Please check the spelling and try again.">>)
    ELSE IF status = 401
    THEN Str(<<"Weather API ", "authentication failed",
               ". This usually means:\n1. Your API key is newly created and needs time to activate (can take up to 2 hours, usually much faster)\n2. Your API key might be invalid\n\nPlease wait a few minutes and try again, or verify your OPENWEATHER_API_KEY in .dev.vars is correct.">>)
    ELSE IF isRateLimitError(status)
    THEN Str(<<"Weather API ", "rate limit reached",
               ". Free tier allows 1,000 calls per day. Please try again later or upgrade your API plan.">>)
    ELSE Str(<<"Unable to fetch weather data ", "(Error ", ToString(status),
               "). Please try again later.">>)

\* mutant: the request is made whether or not there is a key
weatherTryUnchecked(c) ==
    LET apiKey == apiKeyOf(c, "OPENWEATHER_API_KEY")
        key == IF apiKey = <<>> THEN "undefined" ELSE apiKey[1]
        request == <<weatherRequest(c.input.city, key)>>
    IN  IF c.fetch.kind = "reject"
        THEN [outcome |-> Raised(c.fetch.error), effects |-> request]
        ELSE IF ~responseOk(c.fetch)
        THEN [outcome |-> Returned(weatherFailure(c.input.city, c.fetch.status)),
              effects |-> request]
        ELSE IF ~c.fetch.body.json
        THEN [outcome |-> Raised(ToolErr("SyntaxError", "Unexpected token")),
              effects |-> request]
        ELSE [outcome |-> weatherReport(c.fetch.body.data), effects |-> request]

\* the try block of execute
weatherTry(c) ==
    LET apiKey == apiKeyOf(c, "OPENWEATHER_API_KEY")
    IN  IF missing(apiKey)
        THEN [outcome |-> Returned(Str(<<"Weather information ", "is not configured",
                    ". Please add OPENWEATHER_API_KEY to environment variables.">>)),
              effects |-> <<>>]
        ELSE LET request == <<weatherRequest(c.input.city, apiKey[1])>>
             IN  IF c.fetch.kind = "reject"
                 THEN [outcome |-> Raised(c.fetch.error), effects |-> request]
                 ELSE IF ~responseOk(c.fetch)
                 THEN [outcome |->
                          Returned(weatherFailure(c.input.city, c.fetch.status)),
                       effects |-> request]
                 ELSE IF ~c.fetch.body.json
                 THEN [outcome |->
                          Raised(ToolErr("SyntaxError", "Unexpected token")),
                       effects |-> request]
                 ELSE [outcome |-> weatherReport(c.fetch.body.data),
                       effects |-> request]

getWeatherInformation(c) == caught("Error fetching weather: ", weatherTry(c))

(***************************************************************************)
(* searchWeb.execute.  The texts of a result are sequences of characters.  *)
(***************************************************************************)
MaxResults == 4

\* the number of results kept by slice(0, 3)
SEARCH_COUNT == 3

\* the entries of data.web.results: short texts; a title and a description
\* above their maxima; texts at their maxima with a long url; an entry
\* without title; an entry without url
ResultShapes ==
    { [title |-> Chars(5), description |-> Chars(50), url |-> Chars(20)],
      [title |-> Chars(MAX_TITLE_LENGTH + 1),
       description |-> Chars(MaxTextLen), url |-> Chars(20)],
      [title |-> Chars(MAX_TITLE_LENGTH),
       description |-> Chars(MAX_DESCRIPTION_LENGTH),
       url |-> Chars(MaxTextLen)],
      [description |-> Chars(50), url |-> Chars(20)],
      [title |-> Chars(5), description |-> Chars(50)] }

ResultLists ==
    UNION { [1..n -> ResultShapes] : n \in 0..MaxResults }

SearchData ==
    { [type |-> "search"], [type |-> "search", web |-> [type |-> "search"]] }
    \cup { [type |-> "search", web |-> [type |-> "search", results |-> rs]] :
             rs \in ResultLists }

SearchResponses ==
    NonOkResponses \cup {OkResponse([json |-> FALSE])}
    \cup { OkResponse(Json(data)) : data \in SearchData }

SearchCalls ==
    { [tool |-> "searchWeb", input |-> [query |-> q], fetch |-> f] :
        q \in {"tla+"}, f \in FetchFailures \cup NonOkResponses }
    \cup
    { [tool |-> "searchWeb", input |-> [query |-> q], agent |-> a,
       fetch |-> f] :
        q \in {"tla+"}, a \in Agents("BRAVE_SEARCH_API_KEY"),
        f \in FetchFailures \cup SearchResponses }

searchRequest(query, apiKey) ==
    [ op |-> "fetch",
      url |-> <<"https://api.search.brave.com/res/v1/web/search?q=", query,
                "&count=", ToString(SEARCH_COUNT)>>,
      headers |-> [Accept |-> "application/json",
                   AcceptEncoding |-> "gzip",
                   XSubscriptionToken |-> apiKey] ]

\* the message for a response that is not OK
searchFailure(status) ==
    IF isRateLimitError(status)
    THEN Str(<<"Search API ", "rate limit reached",
               ". Free tier allows 2,000 searches per month. Please try again later or upgrade your API plan.">>)
    ELSE Str(<<"Search temporarily unavailable ", "(Error ", ToString(status),
               "). Please try again.">>)

\* data.web?.results?.slice(0, 3): no list when web or results is missing
topResults(data) ==
    IF ~Has(data, "web") THEN <<>>
    ELSE IF ~Has(data.web, "results") THEN <<>>
    ELSE SubSeq(data.web.results, 1,
                IF Len(data.web.results) < SEARCH_COUNT
                THEN Len(data.web.results) ELSE SEARCH_COUNT)

\* the callback of map: the title and the description cut, the url as it
\* is; `${r.url}` of an entry without url writes undefined
shortened(r) ==
    [ title |-> truncateText(r.title, MAX_TITLE_LENGTH),
      description |-> truncateText(r.description, MAX_DESCRIPTION_LENGTH),
      url |-> IF Has(r, "url") THEN r.url ELSE <<"u", "n", "d", "e", "f", "i", "n", "e", "d">> ]

\* `${i + 1}. ${r.title}\n   ${r.description}\n   ${r.url}`
formatted(results) ==
    [i \in 1..Len(results) |->
        [index |-> i, title |-> results[i].title,
         description |-> results[i].description, url |-> results[i].url]]

\* the formatting of the data of an OK response
searchReport(query, data) ==
    LET top == topResults(data)
    IN  IF \E i \in 1..Len(top) :
              ~Has(top[i], "title") \/ ~Has(top[i], "description")
        THEN Raised(ToolErr("TypeError",
                            "Cannot read properties of undefined"))
        ELSE IF Len(top) = 0
        THEN Returned(Str(<<"No results found for \"", query, "\".">>))
        ELSE Returned(StrItems(<<"Search results for \"", query, "\":\n\n">>,
                               formatted(MapSeq(top, shortened))))

\* the try block of execute
searchTry(c) ==
    LET apiKey == apiKeyOf(c, "BRAVE_SEARCH_API_KEY")
    IN  IF missing(apiKey)
        THEN [outcome |-> Returned(Str(<<"Web search ", "is not configured",
                    ". Please add BRAVE_SEARCH_API_KEY to environment variables.">>)),
              effects |-> <<>>]
        ELSE LET request == <<searchRequest(c.input.query, apiKey[1])>>
             IN  IF c.fetch.kind = "reject"
                 THEN [outcome |-> Raised(c.fetch.error), effects |-> request]
                 ELSE IF ~responseOk(c.fetch)
                 THEN [outcome |-> Returned(searchFailure(c.fetch.status)),
                       effects |-> request]
                 ELSE IF ~c.fetch.body.json
                 THEN [outcome |->
                          Raised(ToolErr("SyntaxError", "Unexpected token")),
                       effects |-> request]
                 ELSE [outcome |->
                          searchReport(c.input.query, c.fetch.body.data),
                       effects |-> request]

searchWeb(c) == caught("Search error: ", searchTry(c))

(***************************************************************************)
(* The scheduling tools.  agent.schedule returns a promise that            *)
(* scheduleTask does not await: the primitive creates the task, throws     *)
(* while it is being called, or fails after the call has returned.         *)
(* agent.getSchedules returns a list or throws; the promise of             *)
(* agent.cancelSchedule is awaited.                                        *)
(***************************************************************************)
SchedulingAgent == [env |-> [ENVIRONMENT |-> "dev"]]

\* the when of a call: the four types of the schema, and a type that is
\* none of them
Whens ==
    { [type |-> "no-schedule"],
      [type |-> "scheduled", date |-> "Wed Nov 04 2026 09:00:00 GMT+0000"],
      [type |-> "delayed", delayInSeconds |-> 60],
      [type |-> "cron", cron |-> "0 9 * * *"],
      [type |-> "weekly"] }

PrimitiveBehaviours == {"succeeds", "throws", "rejects"}

PrimitiveError == ToolErr("Error", "storage is unavailable")

\* reading a property of the agent there is not
NoAgentError == ToolErr("TypeError", "Cannot read properties of undefined")

ScheduleCalls ==
    { [tool |-> "scheduleTask",
       input |-> [when |-> w, description |-> d], schedule |-> b] :
        w \in Whens, d \in Descriptions, b \in {"succeeds"} }
    \cup
    { [tool |-> "scheduleTask",
       input |-> [when |-> w, description |-> d],
       agent |-> SchedulingAgent, schedule |-> b] :
        w \in Whens, d \in Descriptions, b \in PrimitiveBehaviours }

\* when.date, when.delayInSeconds or when.cron, as `${input}` writes it
scheduleInput(when) ==
    IF when.type = "scheduled" THEN when.date
    ELSE IF when.type = "delayed" THEN ToString(when.delayInSeconds)
    ELSE when.cron

\* the call agent.schedule(input, "executeTask", description) and what
\* became of it
scheduleRequest(c, settled) ==
    [ op |-> "schedule", when |-> scheduleInput(c.input.when),
      callback |-> "executeTask", payload |-> c.input.description,
      settled |-> settled ]

ScheduleFailed(error) ==
    Str(<<"Error scheduling task", ": ">> \o errorString(error))

\* scheduleTask.execute
scheduleTask(c) ==
    LET when == c.input.when
    IN  IF when.type = "no-schedule"
        THEN [outcome |-> Returned(Str(<<"Not a valid schedule input">>)),
              effects |-> <<>>]
        ELSE IF when.type \notin {"scheduled", "delayed", "cron"}
        THEN [outcome |->
                 Raised(ToolErr("Error", "not a valid schedule input")),
              effects |-> <<>>]
        ELSE IF ~Has(c, "agent")
        THEN [outcome |-> Returned(ScheduleFailed(NoAgentError)),
              effects |-> <<>>]
        ELSE IF c.schedule = "throws"
        THEN [outcome |-> Returned(ScheduleFailed(PrimitiveError)),
              effects |-> <<scheduleRequest(c, "threw")>>]
        ELSE [outcome |-> Returned(Str(<<"Task scheduled for type \"", when.type, "\" : ",
                    scheduleInput(when)>>)),
              effects |-> <<scheduleRequest(c,
                               IF c.schedule = "succeeds" THEN "created"
                               ELSE "rejected")>>]

(***************************************************************************)
(* getScheduledTasks.execute                                               *)
(***************************************************************************)
MAX_TASKS == 20

Tasks(n) == [i \in 1..n |-> [id |-> ToString(i), callback |-> "executeTask"]]

\* what agent.getSchedules() does: it throws, it returns nothing, or it
\* returns a list
SchedulesBehaviours ==
    { [kind |-> "throws"], [kind |-> "undefined"] }
    \cup { [kind |-> "list", tasks |-> Tasks(n)] :
             n \in {0, 1, MAX_TASKS, MAX_TASKS + 1} }

ListCalls ==
    { [tool |-> "getScheduledTasks", schedules |-> b] :
        b \in {[kind |-> "list", tasks |-> Tasks(1)]} }
    \cup
    { [tool |-> "getScheduledTasks", agent |-> SchedulingAgent,
       schedules |-> b] : b \in SchedulesBehaviours }

ListFailed(error) ==
    Str(<<"Error listing scheduled tasks", ": ">> \o errorString(error))

getScheduledTasks(c) ==
    LET request == <<[op |-> "getSchedules"]>>
    IN  IF ~Has(c, "agent")
        THEN [outcome |-> Returned(ListFailed(NoAgentError)), effects |-> <<>>]
        ELSE IF c.schedules.kind = "throws"
        THEN [outcome |-> Returned(ListFailed(PrimitiveError)),
              effects |-> request]
        ELSE IF c.schedules.kind = "undefined"
        THEN [outcome |-> Returned(Str(<<"No scheduled tasks found.">>)),
              effects |-> request]
        ELSE IF Len(c.schedules.tasks) = 0
        THEN [outcome |-> Returned(Str(<<"No scheduled tasks found.">>)),
              effects |-> request]
        ELSE IF Len(c.schedules.tasks) > MAX_TASKS
        THEN [outcome |-> Returned(
                 [tasks |-> SubSeq(c.schedules.tasks, 1, MAX_TASKS),
                  message |-> <<"Showing ", ToString(MAX_TASKS), " of ",
                                ToString(Len(c.schedules.tasks)),
                                " tasks. Use cancelScheduledTask to remove tasks and see more.">>]),
              effects |-> request]
        ELSE [outcome |-> Returned([tasks |-> c.schedules.tasks]),
              effects |-> request]

(***************************************************************************)
(* cancelScheduledTask.execute                                             *)
(***************************************************************************)
CancelCalls ==
    { [tool |-> "cancelScheduledTask", input |-> [taskId |-> id],
       cancel |-> b] : id \in {"task-1"}, b \in {"succeeds"} }
    \cup
    { [tool |-> "cancelScheduledTask", input |-> [taskId |-> id],
       agent |-> SchedulingAgent, cancel |-> b] :
        id \in {"task-1"}, b \in PrimitiveBehaviours }

CancelFailed(taskId, error) ==
    Str(<<"Error canceling task ", taskId, ": ">> \o errorString(error))

cancelRequest(c, settled) ==
    [op |-> "cancelSchedule", id |-> c.input.taskId, settled |-> settled]

cancelScheduledTask(c) ==
    IF ~Has(c, "agent")
    THEN [outcome |-> Returned(CancelFailed(c.input.taskId, NoAgentError)),
          effects |-> <<>>]
    ELSE IF c.cancel = "throws"
    THEN [outcome |-> Returned(CancelFailed(c.input.taskId, PrimitiveError)),
          effects |-> <<cancelRequest(c, "threw")>>]
    ELSE IF c.cancel = "rejects"
    THEN [outcome |-> Returned(CancelFailed(c.input.taskId, PrimitiveError)),
          effects |-> <<cancelRequest(c, "rejected")>>]
    ELSE [outcome |-> Returned(Str(<<"Task ", c.input.taskId,
                                     " has been successfully canceled.">>)),
          effects |-> <<cancelRequest(c, "canceled")>>]

ToolCalls ==
    TruncateCalls \cup WeatherCalls \cup SearchCalls \cup ScheduleCalls
    \cup ListCalls \cup CancelCalls

InitTools ==
    /\ messages = <<>>
    /\ pc = "tool"
    /\ cleanedMessages = <<>>
    /\ callMessages = <<>>
    /\ pending = {}
    /\ resolved = <<>>
    /\ processedMessages = <<>>
    /\ stream = <<>>
    /\ invocations = <<>>
    /\ submissions = <<>>
    /\ response = <<>>
    /\ nextId = 1
    /\ turns = 0
    /\ inflight = <<>>
    /\ thrown = <<>>
    /\ streamState = "open"
    /\ abortedAt = ""
    /\ errorWrite = "none"
    /\ call \in ToolCalls
    /\ outcome = <<>>
    /\ effects = <<>>

chatVars ==
    <<messages, cleanedMessages, callMessages, pending, resolved,
      processedMessages, stream, invocations, turnVars, flowVars>>

\* the function ran to its end: result holds its outcome and its requests
Finish(result) ==
    /\ pc' = "tool-done"
    /\ outcome' = <<result.outcome>>
    /\ effects' = result.effects
    /\ UNCHANGED <<call, chatVars>>

TruncateCall ==
    /\ pc = "tool"
    /\ call.tool = "truncateText"
    /\ Finish([outcome |-> Returned(truncateText(call.text, call.maxLength)),
               effects |-> <<>>])

WeatherCall ==
    /\ pc = "tool"
    /\ call.tool = "getWeatherInformation"
    /\ Finish(getWeatherInformation(call))

SearchCall ==
    /\ pc = "tool"
    /\ call.tool = "searchWeb"
    /\ Finish(searchWeb(call))

ScheduleCall ==
    /\ pc = "tool"
    /\ call.tool = "scheduleTask"
    /\ Finish(scheduleTask(call))

ListCall ==
    /\ pc = "tool"
    /\ call.tool = "getScheduledTasks"
    /\ Finish(getScheduledTasks(call))

CancelCall ==
    /\ pc = "tool"
    /\ call.tool = "cancelScheduledTask"
    /\ Finish(cancelScheduledTask(call))

NextTools ==
    \/ TruncateCall
    \/ WeatherCall
    \/ SearchCall
    \/ ScheduleCall
    \/ ListCall
    \/ CancelCall

SpecTools == InitTools /\ [][NextTools]_vars

(***************************************************************************)
(* Properties.  Their vocabulary is defined here on the data alone, apart  *)
(* from the operators of the model.                                        *)
(***************************************************************************)
P_IsTool(part) == Has(part, "toolCallId")

P_IsWeather(part) == P_IsTool(part) /\ part.type = <<"tool-", WeatherTool>>

P_Parts(message) == IF Has(message, "parts") THEN message.parts ELSE <<>>

P_Streaming(message) ==
    \E i \in 1..Len(P_Parts(message)) :
        /\ P_IsTool(message.parts[i])
        /\ message.parts[i].state = "input-streaming"

P_Positions(ms) ==
    UNION {{<<mi, pi>> : pi \in 1..Len(P_Parts(ms[mi]))} : mi \in 1..Len(ms)}

P_Part(ms, pos) == ms[pos[1]].parts[pos[2]]

P_Blank(text) == \A i \in 1..Len(text) : text[i] \in {" ", "\t", "\n"}

P_HasOutput(part, value) == Has(part, "output") /\ part.output = value

P_WithId(ms, id) == {i \in 1..Len(ms) : ms[i].id = id}

\* C1: cleanupMessages is idempotent: sanitizing the sanitized list again
\* gives the same list.
C1_CleanupIdempotent ==
    pc = "fn-cleaned" => cleanupMessages(cleanedMessages) = cleanedMessages

C1_Witness ==
    /\ pc = "fn-cleaned"
    /\ Len(cleanedMessages) < Len(messages)
    /\ \E pos \in P_Positions(messages) :
          /\ ~P_Streaming(messages[pos[1]])
          /\ P_IsTool(P_Part(messages, pos))
          /\ P_Part(messages, pos).state = "output-error"
          /\ Has(P_Part(messages, pos), "errorText")
          /\ P_Part(messages, pos).errorText # ""

\* C2: the sanitized list lacks exactly the messages that have a tool part
\* in state input-streaming; such a message is absent with all its parts,
\* every other message is present once.
C2_StreamingMessagesDropped ==
    pc = "fn-cleaned" =>
        \A mi \in 1..Len(messages) :
            IF P_Streaming(messages[mi])
            THEN /\ P_WithId(cleanedMessages, messages[mi].id) = {}
                 /\ \A pos \in P_Positions(cleanedMessages) :
                    \A pi \in 1..Len(messages[mi].parts) :
                        P_IsTool(P_Part(cleanedMessages, pos))
                        /\ P_IsTool(messages[mi].parts[pi])
                        => P_Part(cleanedMessages, pos).toolCallId
                              # messages[mi].parts[pi].toolCallId
            ELSE Cardinality(P_WithId(cleanedMessages, messages[mi].id)) = 1

C2_Witness ==
    /\ pc = "fn-cleaned"
    /\ Len(cleanedMessages) = 1
    /\ \E mi \in 1..Len(messages) :
          /\ P_Streaming(messages[mi])
          /\ \E pi \in 1..Len(messages[mi].parts) :
                ~P_IsTool(messages[mi].parts[pi])
          /\ \E pi \in 1..Len(messages[mi].parts) :
                /\ P_IsTool(messages[mi].parts[pi])
                /\ messages[mi].parts[pi].state = "output-available"

P_ErrorOutput(part) ==
    IF Has(part, "errorText") /\ part.errorText # ""
    THEN part.errorText
    ELSE "An error occurred while executing the tool"

\* C3: a tool part in state output-error of a kept message comes out in
\* state output-available with the error text (or the generic default when
\* the error text is absent or empty) as output, without errorText, with
\* the same tool name, invocation id and input.
C3_ErrorBecomesOutput ==
    pc = "fn-cleaned" =>
        /\ \A pos \in P_Positions(cleanedMessages) :
              P_IsTool(P_Part(cleanedMessages, pos))
              => P_Part(cleanedMessages, pos).state # "output-error"
        /\ \A pos \in P_Positions(messages) :
              LET part == P_Part(messages, pos)
              IN  /\ ~P_Streaming(messages[pos[1]])
                  /\ P_IsTool(part)
                  /\ part.state = "output-error"
                  => \E ci \in P_WithId(cleanedMessages, messages[pos[1]].id) :
                     \E cj \in 1..Len(cleanedMessages[ci].parts) :
                        cleanedMessages[ci].parts[cj] =
                            [type |-> part.type,
                             toolCallId |-> part.toolCallId,
                             input |-> part.input,
                             state |-> "output-available",
                             output |-> P_ErrorOutput(part)]

C3_Witness ==
    /\ pc = "fn-cleaned"
    /\ \E pos \in P_Positions(messages) :
          /\ ~P_Streaming(messages[pos[1]])
          /\ P_IsTool(P_Part(messages, pos))
          /\ P_Part(messages, pos).state = "output-error"
          /\ \E cpos \in P_Positions(cleanedMessages) :
                /\ P_HasOutput(P_Part(cleanedMessages, cpos), "Invalid input")
                /\ P_Part(cleanedMessages, cpos).toolCallId
                      = P_Part(messages, pos).toolCallId
    /\ \E pos \in P_Positions(messages) :
          /\ ~P_Streaming(messages[pos[1]])
          /\ P_IsTool(P_Part(messages, pos))
          /\ P_Part(messages, pos).state = "output-error"
          /\ Has(P_Part(messages, pos), "errorText")
          /\ P_Part(messages, pos).errorText = ""

\* what identifies a part across sanitization
P_Key(part) ==
    IF P_IsTool(part) THEN <<"tool", part.toolCallId>>
    ELSE <<"text", part.text>>

P_Keys(parts) == [i \in 1..Len(parts) |-> P_Key(parts[i])]

P_DropBlank(parts) ==
    LET F[i \in 0..Len(parts)] ==
            IF i = 0 THEN <<>>
            ELSE IF ~P_IsTool(parts[i]) /\ P_Blank(parts[i].text)
                 THEN F[i - 1] ELSE Append(F[i - 1], parts[i])
    IN  F[Len(parts)]

\* C4: in a kept assistant message with a tool part the empty and
\* whitespace-only text parts are removed and the other text parts stay,
\* verbatim and in place; in a message of another role or without tool part
\* every text part stays.
C4_EmptyTextRule ==
    pc = "fn-cleaned" =>
        \A mi \in 1..Len(messages) :
            ~P_Streaming(messages[mi]) =>
                \A ci \in P_WithId(cleanedMessages, messages[mi].id) :
                    P_Keys(cleanedMessages[ci].parts) =
                        IF /\ messages[mi].role = "assistant"
                           /\ \E pi \in 1..Len(messages[mi].parts) :
                                 P_IsTool(messages[mi].parts[pi])
                        THEN P_Keys(P_DropBlank(messages[mi].parts))
                        ELSE P_Keys(messages[mi].parts)

C4_Witness ==
    /\ pc = "fn-cleaned"
    /\ \E mi \in 1..Len(messages) :
          /\ messages[mi].role = "assistant"
          /\ Len(messages[mi].parts) = 3
          /\ messages[mi].parts[1] = [type |-> <<"text">>, text |-> <<" ">>]
          /\ P_IsTool(messages[mi].parts[2])
          /\ messages[mi].parts[3] = [type |-> <<"text">>, text |-> <<" ", "hi">>]
          /\ \E ci \in P_WithId(cleanedMessages, messages[mi].id) :
                /\ Len(cleanedMessages[ci].parts) = 2
                /\ cleanedMessages[ci].parts[2] = messages[mi].parts[3]

\* C5: every message list submitted to the model in a turn, by the primary
\* request and by the narration follow-up, has no tool part in state
\* output-error and no message with an input-streaming tool part.
C5_SubmissionsSanitized ==
    \A i \in 1..Len(submissions) :
        /\ \A mi \in 1..Len(submissions[i].messages) :
              ~P_Streaming(submissions[i].messages[mi])
        /\ \A pos \in P_Positions(submissions[i].messages) :
              P_IsTool(P_Part(submissions[i].messages, pos))
              => P_Part(submissions[i].messages, pos).state # "output-error"

\* C6: sanitization leaves the store as it is: the step that computes
\* cleanupMessages(this.messages) changes no message and no part of the
\* persisted list.
C6_SanitizeKeepsStore ==
    [][pc = "fn" /\ pc' = "fn-cleaned" => messages' = messages]_vars

C6_Witness ==
    /\ pc = "fn-cleaned"
    /\ Len(cleanedMessages) < Len(messages)
    /\ \E pos \in P_Positions(cleanedMessages) :
          P_HasOutput(P_Part(cleanedMessages, pos),
                      "An error occurred while executing the tool")
    /\ \E pos \in P_Positions(messages) :
          /\ P_IsTool(P_Part(messages, pos))
          /\ P_Part(messages, pos).state = "output-error"

P_Calls(id) == {i \in 1..Len(invocations) : invocations[i].toolCallId = id}

P_Events(id) == {i \in 1..Len(stream) : stream[i].toolCallId = id}

P_Sunny(input) == "The weather in " \o input.city \o " is sunny"

\* C7: an approved part of a tool of the executions lookup has its handler
\* called exactly once, with the part's input and invocation id; the part
\* is returned with the handler's result as output and otherwise unchanged,
\* and exactly one tool-output-available event with that id and that result
\* is written.
C7_ApprovedIsExecuted ==
    pc = "fn-resolved" =>
        \A pos \in P_Positions(messages) :
            LET part == P_Part(messages, pos)
            IN  P_IsWeather(part) /\ P_HasOutput(part, APPROVAL_YES) =>
                /\ Cardinality(P_Calls(part.toolCallId)) = 1
                /\ \A i \in P_Calls(part.toolCallId) :
                      /\ invocations[i].input = part.input
                      /\ invocations[i].tool = WeatherTool
                /\ P_Part(processedMessages, pos) =
                      [part EXCEPT !.output = P_Sunny(part.input)]
                /\ Cardinality(P_Events(part.toolCallId)) = 1
                /\ \A i \in P_Events(part.toolCallId) :
                      stream[i] = [type |-> "tool-output-available",
                                   toolCallId |-> part.toolCallId,
                                   output |-> P_Sunny(part.input)]

C7_Witness ==
    /\ pc = "fn-resolved"
    /\ Len(stream) = 2
    /\ stream[1].output = "The weather in Oslo is sunny"
    /\ stream[2].output = "The weather in Paris is sunny"
    /\ \E pos \in P_Positions(processedMessages) :
          P_HasOutput(P_Part(processedMessages, pos),
                      "The weather in Oslo is sunny")

\* C8: a denied part of a confirmation-required tool is returned with the
\* fixed denial string as output, exactly one event with that string and
\* the part's id is written, and the handler is not called.
C8_DeniedIsRefused ==
    pc = "fn-resolved" =>
        \A pos \in P_Positions(messages) :
            LET part == P_Part(messages, pos)
            IN  P_IsWeather(part) /\ P_HasOutput(part, APPROVAL_NO) =>
                /\ P_Calls(part.toolCallId) = {}
                /\ P_Part(processedMessages, pos) =
                      [part EXCEPT !.output =
                          "Error: User denied access to tool execution"]
                /\ Cardinality(P_Events(part.toolCallId)) = 1
                /\ \A i \in P_Events(part.toolCallId) :
                      stream[i] = [type |-> "tool-output-available",
                                   toolCallId |-> part.toolCallId,
                                   output |-> "Error: User denied access to tool execution"]

C8_Witness ==
    /\ pc = "fn-resolved"
    /\ invocations = <<>>
    /\ Len(stream) = 1
    /\ \E pos \in P_Positions(messages) :
          /\ P_HasOutput(P_Part(messages, pos), APPROVAL_NO)
          /\ P_HasOutput(P_Part(processedMessages, pos),
                         "Error: User denied access to tool execution")

P_Undecided(part) ==
    /\ P_IsWeather(part)
    /\ ~P_HasOutput(part, APPROVAL_YES)
    /\ ~P_HasOutput(part, APPROVAL_NO)

\* C9: a part of a confirmation-required tool whose output is neither
\* APPROVE nor DENY is returned unchanged; no event is written for it and
\* no handler is called for it.
C9_UndecidedIsDeferred ==
    pc = "fn-resolved" =>
        \A pos \in P_Positions(messages) :
            LET part == P_Part(messages, pos)
            IN  P_Undecided(part) =>
                /\ P_Part(processedMessages, pos) = part
                /\ P_Events(part.toolCallId) = {}
                /\ P_Calls(part.toolCallId) = {}

C9_Witness ==
    /\ pc = "fn-resolved"
    /\ stream # <<>>
    /\ \E pos \in P_Positions(messages) :
          /\ P_IsWeather(P_Part(messages, pos))
          /\ P_HasOutput(P_Part(messages, pos), "The weather in Paris is sunny")
          /\ P_Part(processedMessages, pos) = P_Part(messages, pos)

P_NeedsNarration(ms) ==
    /\ ms # <<>>
    /\ ms[Len(ms)].role = "assistant"
    /\ \E i \in 1..Len(P_Parts(ms[Len(ms)])) :
          /\ P_IsTool(ms[Len(ms)].parts[i])
          /\ ms[Len(ms)].parts[i].state = "output-available"
    /\ \A i \in 1..Len(P_Parts(ms[Len(ms)])) :
          ~P_IsTool(ms[Len(ms)].parts[i])
          => P_Blank(ms[Len(ms)].parts[i].text)

P_Followups ==
    {i \in 1..Len(submissions) : submissions[i].request = "followup"}

C12_TurnDeliversText ==
    pc = "done" /\ inflight = <<>> /\ response = <<>>
    => \E i \in 1..Len(stream) :
          /\ stream[i].type = "text-delta"
          /\ ~P_Blank(stream[i].delta)

P_Lower(segment) ==
    CASE segment = "Rate limit" -> "rate limit"
      [] segment = "Payload" -> "payload"
      [] OTHER -> segment

P_Mentions(err, words) ==
    \E i \in 1..Len(err.message) : P_Lower(err.message[i]) \in words

\* the text the claim assigns to an error
P_ErrorText(err) ==
    IF P_Mentions(err, {"rate limit", "429"})
    THEN "I've hit a rate limit. Please wait a moment and try again."
    ELSE IF P_Mentions(err, {"timeout", "timed out"})
    THEN "The request timed out. Please try again with a simpler query."
    ELSE IF P_Mentions(err, {"too large", "payload", "size"})
    THEN "The response was too large. Please try a more specific query."
    ELSE "I apologize, but I encountered an error processing your request. Please try again."

\* where the outbound stream carries the text
P_TextChunks(text) ==
    {i \in 1..Len(stream) :
        /\ stream[i].type = "text-delta"
        /\ stream[i].delta = <<text>>}

\* the error is an Error whose message names an errored or closed stream
P_NamesStreamError(err) ==
    /\ err.isError
    /\ \E i \in 1..Len(err.message) :
          err.message[i] \in {"errored readable stream", "Cannot close"}

C14_NoWriteOnErroredStream == errorWrite # "attempted"

\* C15: the follow-up request is issued, and the store re-read for it, only
\* when no chunk of the primary stream is left to be forwarded.
C15_FollowupAfterPrimary == P_Followups # {} => inflight = <<>>

\* C16: once the abort signal has fired during the primary request, no
\* follow-up request is made.
C16_AbortSkipsFollowup == abortedAt = "primary" => P_Followups = {}

\* the text of an error value
P_FailureText(err) ==
    LET F[i \in 0..Len(err.message)] ==
            IF i = 0 THEN "" ELSE F[i - 1] \o err.message[i]
    IN  F[Len(err.message)]

\* C17: when the handler of an approved part fails, processToolCalls still
\* returns: the call is not abandoned, and the list it returns carries the
\* failure text as output of a part.
C17_FailureBecomesOutput ==
    thrown # <<>> =>
        /\ pc \in {"fn-resolving", "fn-resolved"}
        /\ pc = "fn-resolved" =>
              \E pos \in P_Positions(processedMessages) :
                  P_HasOutput(P_Part(processedMessages, pos),
                              P_FailureText(thrown[1]))

P_Invoked(id) ==
    \E i \in 1..Len(invocations) : invocations[i].toolCallId = id

\* C19: whatever order the handlers complete in, processToolCalls returns
\* as many messages as it was given, in their order, each with as many
\* parts as before, in their order; the output computed for an invocation
\* is on the part with that invocation's id and on no other part, and the
\* event written for it carries that id.
C19_OrderAndPlacement ==
    pc = "fn-resolved" =>
        /\ Len(processedMessages) = Len(messages)
        /\ \A mi \in 1..Len(messages) :
              /\ processedMessages[mi].id = messages[mi].id
              /\ processedMessages[mi].role = messages[mi].role
              /\ P_Keys(processedMessages[mi].parts) = P_Keys(messages[mi].parts)
        /\ \A pos \in P_Positions(messages) :
              LET before == P_Part(messages, pos)
                  after == P_Part(processedMessages, pos)
              IN  IF P_IsTool(before) /\ P_Invoked(before.toolCallId)
                  THEN /\ after = [before EXCEPT !.output = P_Sunny(before.input)]
                       /\ \A i \in P_Events(before.toolCallId) :
                             stream[i].output = P_Sunny(before.input)
                  ELSE \/ after = before
                       \/ P_HasOutput(before, APPROVAL_NO)
        /\ \A i \in 1..Len(invocations) :
              \E pos \in P_Positions(processedMessages) :
                  /\ P_IsTool(P_Part(processedMessages, pos))
                  /\ P_Part(processedMessages, pos).toolCallId
                        = invocations[i].toolCallId
                  /\ P_HasOutput(P_Part(processedMessages, pos),
                                 P_Sunny(invocations[i].input))

\* two handlers, the one called second completing first
C19_Witness ==
    /\ pc = "fn-resolved"
    /\ Len(invocations) = 2
    /\ invocations[1].input.city # invocations[2].input.city
    /\ Len(stream) = 2
    /\ stream[1].toolCallId = invocations[2].toolCallId
    /\ stream[2].toolCallId = invocations[1].toolCallId
    /\ \E pos \in P_Positions(processedMessages) :
          /\ P_IsTool(P_Part(processedMessages, pos))
          /\ P_Part(processedMessages, pos).toolCallId = invocations[1].toolCallId
          /\ P_HasOutput(P_Part(processedMessages, pos),
                         P_Sunny(invocations[1].input))

\* the messages without an input-streaming tool part, in their order
P_KeptMessages(ms) ==
    LET F[i \in 0..Len(ms)] ==
            IF i = 0 THEN <<>>
            ELSE IF P_Streaming(ms[i]) THEN F[i - 1]
                 ELSE Append(F[i - 1], ms[i])
    IN  F[Len(ms)]

\* a part one of the three rules rewrites or removes
P_Touched(message, part) ==
    \/ P_IsTool(part) /\ part.state = "output-error"
    \/ /\ ~P_IsTool(part)
       /\ P_Blank(part.text)
       /\ message.role = "assistant"
       /\ \E i \in 1..Len(message.parts) : P_IsTool(message.parts[i])

\* the parts of message that no rule touches, in their order
P_Untouched(message, parts) ==
    LET F[i \in 0..Len(parts)] ==
            IF i = 0 THEN <<>>
            ELSE IF P_Touched(message, parts[i]) THEN F[i - 1]
                 ELSE Append(F[i - 1], parts[i])
    IN  F[Len(parts)]

\* the parts that were not an output-error part before sanitization
P_NotConverted(message, parts) ==
    LET wasError(part) ==
            /\ P_IsTool(part)
            /\ \E i \in 1..Len(message.parts) :
                  /\ P_IsTool(message.parts[i])
                  /\ message.parts[i].state = "output-error"
                  /\ message.parts[i].toolCallId = part.toolCallId
        F[i \in 0..Len(parts)] ==
            IF i = 0 THEN <<>>
            ELSE IF wasError(parts[i]) THEN F[i - 1]
                 ELSE Append(F[i - 1], parts[i])
    IN  F[Len(parts)]

\* the keys of the parts of before that are still there in after, in the
\* order of before
P_Surviving(before, after) ==
    LET there == {P_Key(after[j]) : j \in 1..Len(after)}
        F[i \in 0..Len(before)] ==
            IF i = 0 THEN <<>>
            ELSE IF P_Key(before[i]) \in there
                 THEN Append(F[i - 1], P_Key(before[i])) ELSE F[i - 1]
    IN  F[Len(before)]

\* C20: apart from its three rules cleanupMessages changes nothing: the
\* kept messages come out in their original relative order with unchanged
\* id and role and no other field added or lost, the kept parts keep their
\* original order, and every part that is neither rewritten nor removed is
\* identical to the input part.
C20_CleanupFrame ==
    pc = "fn-cleaned" =>
        LET kept == P_KeptMessages(messages)
        IN  /\ Len(cleanedMessages) = Len(kept)
            /\ \A k \in 1..Len(kept) :
                  /\ cleanedMessages[k].id = kept[k].id
                  /\ cleanedMessages[k].role = kept[k].role
                  /\ DOMAIN cleanedMessages[k] = DOMAIN kept[k]
                  /\ P_NotConverted(kept[k], cleanedMessages[k].parts)
                        = P_Untouched(kept[k], kept[k].parts)
                  /\ P_Keys(cleanedMessages[k].parts)
                        = P_Surviving(kept[k].parts, cleanedMessages[k].parts)

C20_Witness ==
    /\ pc = "fn-cleaned"
    /\ Len(messages) = 2
    /\ Len(cleanedMessages) = 2
    /\ cleanedMessages[1].role = "user"
    /\ cleanedMessages[2].role = "assistant"
    /\ Len(messages[2].parts) = 2
    /\ P_IsTool(messages[2].parts[1])
    /\ messages[2].parts[1].state = "output-error"
    /\ P_IsTool(messages[2].parts[2])
    /\ messages[2].parts[2].state = "output-available"
    /\ cleanedMessages[2].parts[1] # messages[2].parts[1]
    /\ cleanedMessages[2].parts[2] = messages[2].parts[2]

P_Completed(part) ==
    P_IsTool(part) /\ part.state \in {"output-available", "output-error"}

\* C21: no step of the system, over chat turns and scheduled-task
\* callbacks, takes a persisted tool part that is in state output-available
\* or output-error back to an earlier state or out of its message: after
\* the step the message is in the store with the part, still completed.
C21_StoreMonotonic ==
    [][\A pos \in P_Positions(messages) :
          P_Completed(P_Part(messages, pos))
          => \E mi \in P_WithId(messages', messages[pos[1]].id) :
             \E pi \in 1..Len(P_Parts(messages'[mi])) :
                /\ P_Completed(messages'[mi].parts[pi])
                /\ messages'[mi].parts[pi].toolCallId
                      = P_Part(messages, pos).toolCallId]_vars

P_TaskText(message) ==
    /\ Len(P_Parts(message)) = 1
    /\ ~P_IsTool(message.parts[1])
    /\ Len(message.parts[1].text) = 2
    /\ message.parts[1].text[1] = "Running scheduled task: "

\* a turn started by a scheduled task is resolving a list in which the
\* sanitizer has rewritten an output-error part that the store still holds
C21_Witness ==
    /\ pc = "resolved"
    /\ Len(messages) = 3
    /\ P_TaskText(messages[3])
    /\ P_IsTool(messages[2].parts[1])
    /\ messages[2].parts[1].state = "output-error"
    /\ Len(processedMessages) = 3
    /\ processedMessages[2].parts[1].state = "output-available"

\* C28: executeTask(description) appends one message to the store: the
\* store afterwards is the list before, unchanged, followed by one
\* user-role message whose only part is the text 'Running scheduled task: '
\* followed by the description.
C28_ExecuteTaskAppends ==
    [][\A i \in 1..Len(messages') :
          messages'[i].id = nextId /\ P_TaskText(messages'[i])
          => /\ i = Len(messages) + 1
             /\ messages' = Append(messages, messages'[i])
             /\ messages'[i].role = "user"
             /\ messages'[i].parts
                   = <<[type |-> <<"text">>,
                        text |-> <<"Running scheduled task: ",
                                   "water the plants">>]>>]_vars

\* the callback has fired on a store that holds a user message and an
\* assistant message
C28_Witness ==
    /\ pc = "start"
    /\ Len(messages) = 3
    /\ messages[1].role = "user"
    /\ messages[2].role = "assistant"
    /\ P_TaskText(messages[3])
    /\ messages[3].role = "user"

\* a call of the named tool function has run to its end
P_Ran(tool) == pc = "tool-done" /\ call.tool = tool /\ outcome # <<>>

\* C26: truncateText(text, maxLength) returns text unchanged when it is at
\* most maxLength long, and otherwise the first maxLength - 3 characters of
\* text followed by '...'; for the configured maxima 100 and 200 the result
\* is never longer than maxLength, and a text of 250 characters cut at 200
\* becomes exactly 200 characters that end in '...'
C26_TruncateText ==
    P_Ran("truncateText") =>
        LET text == call.text
            maxLength == call.maxLength
            result == outcome[1].value
        IN  /\ outcome[1].kind = "return"
            /\ Len(text) <= maxLength => result = text
            /\ Len(text) > maxLength =>
                  /\ Len(result) = maxLength
                  /\ \A i \in 1..(maxLength - 3) : result[i] = text[i]
                  /\ \A i \in (maxLength - 2)..maxLength : result[i] = "."
            /\ Len(result) <= maxLength
            /\ (Len(text) = 250 /\ maxLength = 200) =>
                  /\ Len(result) = 200
                  /\ SubSeq(result, 198, 200) = <<".", ".", ".">>

\* a text of 250 characters was cut at 200
C26_Witness ==
    /\ P_Ran("truncateText")
    /\ Len(call.text) = 250
    /\ call.maxLength = 200
    /\ Len(outcome[1].value) = 200
    /\ outcome[1].value[197] = call.text[197]
    /\ outcome[1].value[198] = "."

\* the tools of a declaration that carry an execute function
P_AutoExecute(declared) == {name \in DOMAIN declared : declared[name]}

\* the two sets of a configuration are disjoint, and every key of the
\* executions table names a declared tool without execute
P_Disjoint(declared, table) ==
    /\ P_AutoExecute(declared) \cap DOMAIN table = {}
    /\ \A name \in DOMAIN table :
          name \in DOMAIN declared /\ ~declared[name]

\* C22: in each configuration no tool name is both an auto-execute tool
\* and a key of executions, and every key of executions names a declared
\* tool that has no execute function; so every handler that processToolCalls
\* invokes belongs to a declared tool that waits for the user's decision
C22_ToolSetsDisjoint ==
    /\ P_Disjoint(tools, executions)
    /\ P_Disjoint(toolsOfUtils, executionsOfUtils)
    /\ \A i \in 1..Len(invocations) :
          /\ invocations[i].tool \in DOMAIN tools
          /\ ~tools[invocations[i].tool]

\* the table was consulted for an approved weather part, whose handler ran,
\* and for an approved part of getLocalTime, which has no entry in it
C22_Witness ==
    /\ pc = "fn-resolved"
    /\ invocations # <<>>
    /\ invocations[1].tool = WeatherTool
    /\ \E pos \in P_Positions(messages) :
          LET part == P_Part(messages, pos)
          IN  /\ P_IsTool(part)
              /\ ~P_IsWeather(part)
              /\ part.state = "output-available"
              /\ P_HasOutput(part, APPROVAL_YES)
              /\ P_Part(processedMessages, pos) = part

\* the segments of a returned string
P_Segments(value) == {value.text[i] : i \in 1..Len(value.text)}

\* the function returned a string
P_ReturnedString ==
    /\ outcome[1].kind = "return"
    /\ Has(outcome[1].value, "text")

\* the words that tell the four messages for a failed request apart
P_Markers ==
    {"not found", "authentication failed", "rate limit reached", "(Error "}

P_MarkerFor(status) ==
    IF status = 404 THEN "not found"
    ELSE IF status = 401 THEN "authentication failed"
    ELSE IF status \in {429, 403} THEN "rate limit reached"
    ELSE "(Error "

\* the call was answered by a response that is not OK
P_NotOk ==
    /\ effects # <<>>
    /\ call.fetch.kind = "response"
    /\ ~(call.fetch.status \in 200..299)

\* C24: each of the two HTTP adapters answers a response that is not OK by
\* its status: 404 with the not-found message, 401 with the authentication
\* message, 429 or 403 with the rate-limit message, any other status with
\* the generic message, and no message carries the words of another
C24_StatusMapped ==
    \A tool \in {"getWeatherInformation", "searchWeb"} :
        (P_Ran(tool) /\ P_NotOk) =>
            /\ P_ReturnedString
            /\ P_Segments(outcome[1].value) \cap P_Markers
                  = {P_MarkerFor(call.fetch.status)}

\* the key of the adapter is not in the configuration of the call
P_KeyAbsent(keyName) ==
    \/ ~Has(call, "agent")
    \/ ~Has(call.agent.env, keyName)
    \/ call.agent.env[keyName] = ""

\* C25: when its API key is absent from the configuration, the weather
\* adapter (the web search adapter) returns its configuration-missing
\* message and makes no HTTP request; it neither raises nor returns another
\* message
C25_MissingKey ==
    /\ (P_Ran("getWeatherInformation") /\ P_KeyAbsent("OPENWEATHER_API_KEY"))
          => /\ outcome[1] =
                  [kind |-> "return",
                   value |-> [text |-> <<"Weather information ",
                       "is not configured",
                       ". Please add OPENWEATHER_API_KEY to environment variables.">>,
                              items |-> <<>>]]
             /\ effects = <<>>
    /\ (P_Ran("searchWeb") /\ P_KeyAbsent("BRAVE_SEARCH_API_KEY"))
          => /\ outcome[1] =
                  [kind |-> "return",
                   value |-> [text |-> <<"Web search ", "is not configured",
                       ". Please add BRAVE_SEARCH_API_KEY to environment variables.">>,
                              items |-> <<>>]]
             /\ effects = <<>>

\* the weather adapter ran for an agent whose environment has no key, where
\* a request would have been answered
C25_Witness ==
    /\ P_Ran("getWeatherInformation")
    /\ Has(call, "agent")
    /\ ~Has(call.agent.env, "OPENWEATHER_API_KEY")
    /\ call.fetch.kind = "response"
    /\ call.fetch.status = 200
    /\ "is not configured" \in P_Segments(outcome[1].value)
    /\ effects = <<>>

\* C27: the web search adapter cuts every text it returns: of each returned
\* result the title is at most 100 characters long, the description at most
\* 200, and the url at most the largest maximum of the adapter, and at most
\* 3 results are returned
C27_FieldsTruncated ==
    (P_Ran("searchWeb") /\ P_ReturnedString) =>
        LET items == outcome[1].value.items
        IN  /\ Len(items) <= 3
            /\ \A i \in 1..Len(items) :
                  /\ Len(items[i].title) <= 100
                  /\ Len(items[i].description) <= 200
                  /\ Len(items[i].url) <= 200

\* the tool functions that talk to a collaborator
P_Adapters ==
    { "getWeatherInformation", "searchWeb", "scheduleTask",
      "getScheduledTasks", "cancelScheduledTask" }

P_ScheduleCalled == \E i \in 1..Len(effects) : effects[i].op = "schedule"

\* the scheduling primitive was called and created the task
P_TaskCreated ==
    \E i \in 1..Len(effects) :
        effects[i].op = "schedule" /\ effects[i].settled = "created"

\* C30: scheduleTask reports what the scheduling primitive did: when the
\* call of the primitive fails, while it is made or afterwards, the tool
\* returns a string that starts with 'Error scheduling task', and it returns
\* 'Task scheduled for type ...' only when the task was created
C30_FaithfulReport ==
    (P_Ran("scheduleTask") /\ outcome[1].kind = "return") =>
        LET text == outcome[1].value.text
        IN  /\ (P_ScheduleCalled /\ ~P_TaskCreated)
                  => text[1] = "Error scheduling task"
            /\ text[1] = "Task scheduled for type \"" => P_TaskCreated

\* the tool-output-available events on the outbound stream
P_OutputEvents(s) ==
    {i \in 1..Len(s) : s[i].type = "tool-output-available"}

\* a part the resolver resolves that still carries its approval token
P_Token(part) ==
    /\ P_IsWeather(part)
    /\ part.state = "output-available"
    /\ P_HasOutput(part, APPROVAL_YES) \/ P_HasOutput(part, APPROVAL_NO)

\* C29: in a turn the resolver has finished before the primary request is
\* issued: every tool-output-available event is written while no request
\* has been made, model output is forwarded only after the request, and
\* the primary request's message list carries the output computed for each
\* invocation and no APPROVE or DENY token of a part of the lookup's tool.
C29_ResolveBeforeSubmit ==
    /\ [](/\ submissions = <<>> /\ thrown = <<>>
             => P_OutputEvents(stream) = 1..Len(stream)
          /\ submissions # <<>>
             => /\ submissions[1].request = "primary"
                /\ pending = {}
                /\ \A pos \in P_Positions(submissions[1].messages) :
                      ~P_Token(P_Part(submissions[1].messages, pos))
                /\ \A i \in 1..Len(invocations) :
                      \E pos \in P_Positions(submissions[1].messages) :
                         LET part == P_Part(submissions[1].messages, pos)
                         IN  /\ P_IsTool(part)
                             /\ part.toolCallId = invocations[i].toolCallId
                             /\ P_HasOutput(part, P_Sunny(invocations[i].input)))
    /\ [][Cardinality(P_OutputEvents(stream'))
             > Cardinality(P_OutputEvents(stream))
          => submissions = <<>> /\ submissions' = <<>>]_vars

\* the primary request has been issued after an approved call was executed
\* and its event written
C29_Witness ==
    /\ pc = "waiting"
    /\ Len(invocations) = 1
    /\ Len(stream) >= 1
    /\ stream[1].type = "tool-output-available"
    /\ stream[1].output = P_Sunny(invocations[1].input)
    /\ Len(submissions) = 1
    /\ \E pos \in P_Positions(submissions[1].messages) :
          P_HasOutput(P_Part(submissions[1].messages, pos),
                      P_Sunny(invocations[1].input))

====
